---------------------------- MODULE Spec2Model ----------------------------
(***************************************************************************)
(* QRKirana: the credit ("khata") ledger and the recurring-delivery        *)
(* scheduler, modelled from the request handlers under src/.               *)
(*                                                                         *)
(* Money amounts are integers (the handlers use JavaScript numbers; no     *)
(* handler modelled here divides).  Instants are integers: an instant is   *)
(* day * TicksPerDay + tick, local time, no daylight-saving shifts.        *)
(* A nullable column is a set with at most one element.                    *)
(***************************************************************************)
EXTENDS Integers, Sequences, FiniteSets, TLC

\* ------------------------------------------------------------------ bounds
MaxShops == 2
MaxMobiles == 1
MaxLimit == 1
MaxAmount == 1
MaxOps == 4
MaxOrders == 2
MaxPayments == 1

Shops == 1..MaxShops
Mobiles == 1..MaxMobiles
\* a customer row is keyed by (shopId, mobile): orders/route.ts finds or creates it so
CustomerKeys == Shops \X Mobiles
Limits == 0..MaxLimit
\* credit/transactions accepts any number as amount (z.number())
TxAmounts == (-1)..MaxAmount
\* orders and payments validate amount >= 0
PosAmounts == 0..MaxAmount
TxTypes == {"CREDIT", "DEBIT", "PAYMENT", "ADJUSTMENT", "INTEREST", "FEE"}

VARIABLES
  customers,       \* CustomerKey -> [totalOrders, totalSpent], the rows that exist
  accounts,        \* sequence of CreditAccount rows; the id is the index
  ledger,          \* sequence of CreditTransaction rows, append-only
  orders,          \* sequence of Order rows
  payments,        \* sequence of Payment rows
  clock,           \* requests handled so far; stands for Date.now()
  last,            \* the last request and its response
  req,             \* per concurrent request: its position and its local variables
  calc,            \* one call of calculateNextDelivery: inputs and result
  now,             \* the current instant of the delivery scheduler
  subscriptions,   \* sequence of Subscription rows
  deliveries,      \* sequence of DeliverySchedule rows
  invoices,        \* sequence of Invoice rows
  subscriptionSettings  \* Shop -> {} or {SubscriptionSettings row}

vars == <<customers, accounts, ledger, orders, payments, clock, last,
          req, calc, now, subscriptions, deliveries, invoices, subscriptionSettings>>

ledgerVars == <<customers, accounts, ledger, orders, payments, clock, last>>
raceVars == <<req>>
calcVars == <<calc>>
deliveryVars == <<now, subscriptions, deliveries, invoices, subscriptionSettings>>

Min(a, b) == IF a < b THEN a ELSE b
Max(a, b) == IF a > b THEN a ELSE b

\* ------------------------------------------------------------ credit score
\* calculateCreditScore of the credit-accounts and credit-transactions routes
\* (the two copies are the same text).  settings is {} (null) or {row}.
ScoreOrders(totalOrders) ==
  IF totalOrders < 5 THEN -10 ELSE IF totalOrders < 10 THEN -5 ELSE 0

ScoreSpentLow(totalSpent) ==
  IF totalSpent < 1000 THEN -15
  ELSE IF totalSpent < 5000 THEN -8
  ELSE IF totalSpent < 10000 THEN -3 ELSE 0

ScoreSpentHigh(totalSpent) ==
  IF totalSpent > 50000 THEN 10 ELSE IF totalSpent > 20000 THEN 5 ELSE 0

calculateCreditScore(customer, settings) ==
  LET raw == 100 + ScoreOrders(customer.totalOrders)
                 + ScoreSpentLow(customer.totalSpent)
                 + ScoreSpentHigh(customer.totalSpent)
      floored == IF settings # {} /\ (\E s \in settings : raw < s.minCreditScore)
                 THEN (CHOOSE s \in settings : TRUE).minCreditScore
                 ELSE raw
  IN Min(100, Max(0, floored))

\* The CreditSettings row of a shop is written by the settings route, which may run
\* between any two requests; a handler reads it once: null, the default floor the
\* settings route creates, or a floor a shop has set.
DefaultMinCreditScore == 60
HighMinCreditScore == 90
CreditSettingsRows ==
  {{}, {[minCreditScore |-> DefaultMinCreditScore]}, {[minCreditScore |-> HighMinCreditScore]}}

\* ---------------------------------------------------------------- schema
\* CreditAccount.currentBalance is not set by the create call: the column default
DefaultCurrentBalance == 0

NoResponse == [op |-> "none", result |-> "none", account |-> 0, type |-> "", amount |-> 0]

Response(op, result, account, type, amount) ==
  [op |-> op, result |-> result, account |-> account, type |-> type, amount |-> amount]

\* db.creditAccount.findFirst({where: {id, shopId}}): {} or {row}
FindAccount(id, shopId) ==
  IF id \in 1..Len(accounts) /\ accounts[id].shopId = shopId THEN {accounts[id]} ELSE {}

\* mutant: the existing-account lookup finds nothing
AccountsOfUnchecked(customerKey, shopId) == {}

\* db.creditAccount.findFirst({where: {customerId, shopId}}): the ids that match
AccountsOf(customerKey, shopId) ==
  {i \in 1..Len(accounts) :
     accounts[i].customerId = customerKey /\ accounts[i].shopId = shopId}

\* ------------------------------------------------- POST /api/credit/accounts
InitialEntryBalance(creditLimit) == creditLimit

AccountPost(auth, shopId, customerKey, creditLimit, creditSettings) ==
  /\ clock < MaxOps
  /\ clock' = clock + 1
  /\ UNCHANGED <<customers, orders, payments>>
  /\ IF shopId # auth
     THEN /\ last' = Response("account", "unauthorized", 0, "", 0)
          /\ UNCHANGED <<accounts, ledger>>
     ELSE IF ~(customerKey \in DOMAIN customers /\ customerKey[1] = shopId)
     THEN /\ last' = Response("account", "customer_not_found", 0, "", 0)
          /\ UNCHANGED <<accounts, ledger>>
     ELSE IF AccountsOf(customerKey, shopId) # {}
     THEN /\ last' = Response("account", "already_exists", 0, "", 0)
          /\ UNCHANGED <<accounts, ledger>>
     ELSE LET creditScore == calculateCreditScore(customers[customerKey],
                                                  creditSettings)
              id == Len(accounts) + 1
          IN /\ accounts' = Append(accounts,
                  [customerId |-> customerKey,
                   shopId |-> shopId,
                   creditLimit |-> creditLimit,
                   currentBalance |-> DefaultCurrentBalance,
                   availableCredit |-> creditLimit,
                   creditScore |-> creditScore,
                   isActive |-> TRUE,
                   lastPaymentDate |-> {}])
             /\ ledger' = Append(ledger,
                  [accountId |-> id, type |-> "CREDIT", amount |-> creditLimit,
                   balance |-> InitialEntryBalance(creditLimit)])
             /\ last' = Response("account", "ok", id, "CREDIT", creditLimit)

\* ---------------------------------------------- POST /api/credit/transactions
\* mutant: DEBIT adds to the balance, as the order route's DEBIT does
TxNewBalanceDebitAdds(b, type, a) ==
  CASE type = "CREDIT" -> b + a
    [] type = "DEBIT" -> b + a
    [] type = "PAYMENT" -> b - a
    [] type = "ADJUSTMENT" -> a
    [] type = "INTEREST" -> b + a
    [] type = "FEE" -> b - a

\* the switch on the transaction type: the new balance
TxNewBalance(b, type, a) ==
  CASE type = "CREDIT" -> b + a
    [] type = "DEBIT" -> b - a
    [] type = "PAYMENT" -> b - a
    [] type = "ADJUSTMENT" -> a
    [] type = "INTEREST" -> b + a
    [] type = "FEE" -> b - a

\* the switch on the transaction type: the new available credit, before the cap
TxNewAvailable(v, type, a) ==
  CASE type = "CREDIT" -> v + a
    [] type = "DEBIT" -> v - a
    [] type = "PAYMENT" -> v + a
    [] type = "ADJUSTMENT" -> a
    [] type = "INTEREST" -> v
    [] type = "FEE" -> v

\* mutant: the credit limit is not validated
ExceedsLimitUnchecked(newBalance, creditLimit) == FALSE

\* if (newBalance > creditAccount.creditLimit) reject
ExceedsLimit(newBalance, creditLimit) == newBalance > creditLimit

\* if (newAvailableCredit > creditLimit) newAvailableCredit = creditLimit
CapAvailable(newAvailable, creditLimit) ==
  IF newAvailable > creditLimit THEN creditLimit ELSE newAvailable

\* mutant: the ledger row is created before the limit is validated
LedgerOnRejectAppended(entry) == Append(ledger, entry)

\* what a rejected request has written by the time it returns: nothing, the
\* validation precedes db.creditTransaction.create
LedgerOnReject(entry) == ledger

\* the second update of a PAYMENT: lastPaymentDate, and creditScore when it changed
PaymentFollowUp(account, at, creditSettings) ==
  LET customer == IF account.customerId \in DOMAIN customers
                  THEN {customers[account.customerId]} ELSE {}
      newCreditScore == IF customer = {} THEN account.creditScore
                        ELSE calculateCreditScore(CHOOSE c \in customer : TRUE,
                                                  creditSettings)
  IN [account EXCEPT !.lastPaymentDate = {at}, !.creditScore = newCreditScore]

TxPost(auth, accountId, type, amount, creditSettings) ==
  /\ clock < MaxOps
  /\ clock' = clock + 1
  /\ UNCHANGED <<customers, orders, payments>>
  /\ LET found == FindAccount(accountId, auth) IN
     IF found = {}
     THEN /\ last' = Response("tx", "not_found", accountId, type, amount)
          /\ UNCHANGED <<accounts, ledger>>
     ELSE LET creditAccount == CHOOSE x \in found : TRUE
              newBalance == TxNewBalance(creditAccount.currentBalance, type, amount)
              newAvailableCredit ==
                CapAvailable(TxNewAvailable(creditAccount.availableCredit, type, amount),
                             creditAccount.creditLimit)
              entry == [accountId |-> accountId, type |-> type, amount |-> amount,
                        balance |-> newBalance]
              updated == [creditAccount EXCEPT !.currentBalance = newBalance,
                                               !.availableCredit = newAvailableCredit]
          IN IF ~creditAccount.isActive
             THEN /\ last' = Response("tx", "inactive", accountId, type, amount)
                  /\ UNCHANGED <<accounts, ledger>>
             ELSE IF ExceedsLimit(newBalance, creditAccount.creditLimit)
             THEN /\ last' = Response("tx", "limit_exceeded", accountId, type, amount)
                  /\ ledger' = LedgerOnReject(entry)
                  /\ UNCHANGED accounts
             ELSE /\ ledger' = Append(ledger, entry)
                  /\ accounts' = [accounts EXCEPT ![accountId] =
                       IF type = "PAYMENT"
                       THEN PaymentFollowUp(updated, clock', creditSettings)
                       ELSE updated]
                  /\ last' = Response("tx", "ok", accountId, type, amount)

\* ------------------------------------------------------------ POST /api/orders
\* the balance the credit branch records and stores: the order total is added
OrderNewBalance(b, totalAmount) == b + totalAmount

OrderNewAvailable(v, totalAmount) == v - totalAmount

\* catalogOk: the shop is active and every product exists and is in stock (the
\* shop and product tables are not modelled).  creditAccountId 0: none given.
OrderPost(shopId, mobile, totalAmount, paymentMethod, creditAccountId, catalogOk) ==
  /\ clock < MaxOps
  /\ clock' = clock + 1
  /\ UNCHANGED payments
  /\ IF ~catalogOk
     THEN /\ last' = Response("order", "catalog", 0, "", totalAmount)
          /\ UNCHANGED <<customers, accounts, ledger, orders>>
     ELSE
       LET key == <<shopId, mobile>>
           customer == IF key \in DOMAIN customers THEN customers[key]
                       ELSE [totalOrders |-> 0, totalSpent |-> 0]
           created == [k \in DOMAIN customers \cup {key} |->
                         IF k = key THEN customer ELSE customers[k]]
           order == [shopId |-> shopId, customerId |-> key, totalAmount |-> totalAmount,
                     paymentMethod |-> paymentMethod, paymentStatus |-> "pending",
                     creditAccountId |-> 0]
           counted == [created EXCEPT ![key] =
                         [totalOrders |-> customer.totalOrders + 1,
                          totalSpent |-> customer.totalSpent + totalAmount]]
           found == FindAccount(creditAccountId, shopId)
       IN IF paymentMethod = "credit" /\ creditAccountId # 0
          THEN IF found = {}
               THEN /\ last' = Response("order", "account_not_found", creditAccountId,
                                        "", totalAmount)
                    /\ customers' = created
                    /\ orders' = Append(orders, order)
                    /\ UNCHANGED <<accounts, ledger>>
               ELSE LET creditAccount == CHOOSE x \in found : TRUE IN
                    IF ~creditAccount.isActive
                    THEN /\ last' = Response("order", "inactive", creditAccountId,
                                             "", totalAmount)
                         /\ customers' = created
                         /\ orders' = Append(orders, order)
                         /\ UNCHANGED <<accounts, ledger>>
                    ELSE IF totalAmount > creditAccount.availableCredit
                    THEN /\ last' = Response("order", "exceeds_available",
                                             creditAccountId, "", totalAmount)
                         /\ customers' = created
                         /\ orders' = Append(orders, order)
                         /\ UNCHANGED <<accounts, ledger>>
                    ELSE /\ ledger' = Append(ledger,
                              [accountId |-> creditAccountId, type |-> "DEBIT",
                               amount |-> totalAmount,
                               balance |-> OrderNewBalance(creditAccount.currentBalance,
                                                           totalAmount)])
                         /\ accounts' = [accounts EXCEPT ![creditAccountId] =
                              [creditAccount EXCEPT
                                 !.currentBalance =
                                    OrderNewBalance(creditAccount.currentBalance, totalAmount),
                                 !.availableCredit =
                                    OrderNewAvailable(creditAccount.availableCredit,
                                                      totalAmount)]]
                         /\ orders' = Append(orders,
                              [order EXCEPT !.paymentStatus = "completed",
                                            !.creditAccountId = creditAccountId])
                         /\ customers' = counted
                         /\ last' = Response("order", "ok", creditAccountId, "DEBIT",
                                             totalAmount)
          ELSE /\ orders' = Append(orders, order)
               /\ customers' = counted
               /\ last' = Response("order", "ok", 0, "", totalAmount)
               /\ UNCHANGED <<accounts, ledger>>

\* ---------------------------------------------------------- POST /api/payments
\* db.invoice.findUnique({where: {id}}): the positions of the rows with that id
InvoiceAt(invoiceId) == {k \in 1..Len(invoices) : invoices[k].id = invoiceId}

\* the paidAmount updateInvoicePayment writes
PaidAfter(paidAmount, amount) == paidAmount + amount

\* updateInvoicePayment: the invoice is looked up by id alone
updateInvoicePayment(invoiceId, amount) ==
  IF InvoiceAt(invoiceId) = {} THEN invoices
  ELSE LET at == CHOOSE k \in InvoiceAt(invoiceId) : TRUE
           invoice == invoices[at]
           newPaidAmount == PaidAfter(invoice.paidAmount, amount)
           newBalanceAmount == Max(0, invoice.balanceAmount - amount)
           newStatus == IF newBalanceAmount = 0 /\ newPaidAmount >= invoice.totalAmount
                        THEN "PAID"
                        ELSE IF invoice.status = "PAID" /\ newBalanceAmount > 0
                        THEN "PARTIALLY_PAID"
                        ELSE invoice.status
       IN [invoices EXCEPT ![at] =
             [invoice EXCEPT !.paidAmount = newPaidAmount,
                             !.balanceAmount = newBalanceAmount,
                             !.status = newStatus]]

\* updateOrderPayment: the order is looked up by id alone
updateOrderPayment(orderId, method) ==
  IF orderId \notin 1..Len(orders) THEN orders
  ELSE [orders EXCEPT ![orderId] =
          [@ EXCEPT !.paymentMethod = method, !.paymentStatus = "completed"]]

\* processCreditPayment: the customer's active account, if any
PaymentNewBalance(b, amount) == b - amount

PaymentNewAvailable(v, amount) == v + amount

ActiveAccountsOf(customerId, shopId) ==
  {i \in AccountsOf(customerId, shopId) : accounts[i].isActive}

\* methodAccepted: the shop has billing settings and they accept the method (the
\* BillingSettings table is not modelled).  invoiceId, orderId 0 and customerId {}:
\* not given.  status "PENDING" also stands for an omitted status.
PaymentPost(auth, shopId, amount, method, status, customerId, orderId, invoiceId, methodAccepted) ==
  /\ clock < MaxOps
  /\ clock' = clock + 1
  /\ UNCHANGED customers
  /\ IF shopId # auth
     THEN /\ last' = Response("payment", "unauthorized", 0, "", amount)
          /\ UNCHANGED <<accounts, ledger, orders, payments, invoices>>
     ELSE IF ~methodAccepted
     THEN /\ last' = Response("payment", "not_accepted", 0, "", amount)
          /\ UNCHANGED <<accounts, ledger, orders, payments, invoices>>
     ELSE
       LET completed == status = "COMPLETED"
           credit == IF method = "CREDIT" /\ completed
                     THEN UNION {ActiveAccountsOf(c, shopId) : c \in customerId}
                     ELSE {}
       IN /\ payments' = Append(payments,
               [shopId |-> shopId, invoiceId |-> invoiceId, orderId |-> orderId,
                customerId |-> customerId, amount |-> amount, method |-> method,
                status |-> status])
          /\ invoices' = IF invoiceId # 0 /\ completed
                         THEN updateInvoicePayment(invoiceId, amount) ELSE invoices
          /\ orders' = IF orderId # 0 /\ completed
                       THEN updateOrderPayment(orderId, method) ELSE orders
          /\ IF credit = {}
             THEN /\ UNCHANGED <<accounts, ledger>>
                  /\ last' = Response("payment", "ok", 0, "", amount)
             ELSE LET id == CHOOSE i \in credit : TRUE
                      creditAccount == accounts[id]
                  IN /\ ledger' = Append(ledger,
                          [accountId |-> id, type |-> "PAYMENT", amount |-> amount,
                           balance |-> PaymentNewBalance(creditAccount.currentBalance,
                                                         amount)])
                     /\ accounts' = [accounts EXCEPT ![id] =
                          [creditAccount EXCEPT
                             !.currentBalance =
                                PaymentNewBalance(creditAccount.currentBalance, amount),
                             !.availableCredit =
                                PaymentNewAvailable(creditAccount.availableCredit, amount),
                             !.lastPaymentDate = {clock'}]]
                     /\ last' = Response("payment", "ok", id, "PAYMENT", amount)

\* ------------------------------------------------- the ledger, one request at a time
InitLedgerVars ==
  /\ customers = <<>>
  /\ accounts = <<>>
  /\ ledger = <<>>
  /\ orders = <<>>
  /\ payments = <<>>
  /\ clock = 0
  /\ last = NoResponse

InitIdle ==
  /\ req = <<>>
  /\ calc = <<>>
  /\ now = 0
  /\ subscriptions = <<>>
  /\ deliveries = <<>>
  /\ invoices = <<>>
  /\ subscriptionSettings = <<>>

Init == InitLedgerVars /\ InitIdle

AccountIds == 1..(Len(accounts) + 1)

\* only a PAYMENT reads the shop's credit settings
SettingsReadBy(type) == IF type = "PAYMENT" THEN CreditSettingsRows ELSE {{}}

DoAccountPost ==
  /\ \E auth \in Shops, shopId \in Shops, c \in CustomerKeys, l \in Limits,
        cs \in CreditSettingsRows : AccountPost(auth, shopId, c, l, cs)
  /\ UNCHANGED <<invoices, req, calc, now, subscriptions, deliveries, subscriptionSettings>>

DoTxPost ==
  /\ \E auth \in Shops, id \in AccountIds, t \in TxTypes, a \in TxAmounts :
        \E cs \in SettingsReadBy(t) : TxPost(auth, id, t, a, cs)
  /\ UNCHANGED <<invoices, req, calc, now, subscriptions, deliveries, subscriptionSettings>>

DoOrderPost ==
  /\ Len(orders) < MaxOrders
  /\ \E shopId \in Shops, m \in Mobiles, a \in PosAmounts,
        pm \in {"cod", "credit"}, id \in 0..Len(accounts), ok \in BOOLEAN :
        OrderPost(shopId, m, a, pm, id, ok)
  /\ UNCHANGED <<invoices, req, calc, now, subscriptions, deliveries, subscriptionSettings>>

\* the ledger's payments: CREDIT-method payments that name no order
DoPaymentPost ==
  /\ Len(payments) < MaxPayments
  /\ \E auth \in Shops, shopId \in Shops, a \in PosAmounts,
        status \in {"PENDING", "COMPLETED"},
        c \in {{}} \cup {{k} : k \in CustomerKeys},
        i \in 0..Len(invoices), ok \in BOOLEAN :
        PaymentPost(auth, shopId, a, "CREDIT", status, c, 0, i, ok)
  /\ UNCHANGED <<req, calc, now, subscriptions, deliveries, subscriptionSettings>>

Next == DoAccountPost \/ DoTxPost \/ DoOrderPost \/ DoPaymentPost

Spec == Init /\ [][Next]_vars

\* ------------------------------------------------------- claims on the ledger
\* the balance table of the specification, by transaction type
ClaimedBalance(b, type, a) ==
  IF type \in {"CREDIT", "INTEREST"} THEN b + a
  ELSE IF type \in {"DEBIT", "PAYMENT", "FEE"} THEN b - a
  ELSE a

ClaimedAvailable(v, type, a) ==
  IF type \in {"CREDIT", "PAYMENT"} THEN v + a
  ELSE IF type = "DEBIT" THEN v - a
  ELSE IF type = "ADJUSTMENT" THEN a
  ELSE v

\* C1: in every reachable state each credit account's currentBalance is at most
\* its creditLimit.
C1_BalanceWithinLimit ==
  \A i \in 1..Len(accounts) : accounts[i].currentBalance <= accounts[i].creditLimit

\* C2: a credit transaction whose resulting balance would exceed the account's
\* creditLimit is rejected, and the rejection leaves every account (balance,
\* available credit, score, last payment date) and the ledger as they were.
C2_RejectionChangesNothing ==
  [][(last'.op = "tx" /\ last'.result \notin {"not_found", "inactive"}) =>
       LET a == accounts[last'.account]
           exceeds == ClaimedBalance(a.currentBalance, last'.type, last'.amount)
                        > a.creditLimit
       IN /\ exceeds => last'.result = "limit_exceeded"
          /\ last'.result = "limit_exceeded" =>
               /\ exceeds
               /\ accounts' = accounts
               /\ ledger' = ledger
               /\ customers' = customers]_vars

C2_Witness ==
  /\ last.op = "tx"
  /\ last.result = "limit_exceeded"
  /\ accounts[last.account].currentBalance <= accounts[last.account].creditLimit

\* C3: an accepted credit transaction of amount a on balance b and available
\* credit v stores the balance of the table (CREDIT b+a, DEBIT b-a, PAYMENT b-a,
\* ADJUSTMENT a, INTEREST b+a, FEE b-a) and the available credit of the table
\* (v+a, v-a, v+a, a, v, v) capped at creditLimit.
C3_AcceptedTransactionResult ==
  [][(last'.op = "tx" /\ last'.result = "ok") =>
       LET id == last'.account
           b == accounts[id].currentBalance
           v == accounts[id].availableCredit
       IN /\ accounts'[id].currentBalance = ClaimedBalance(b, last'.type, last'.amount)
          /\ accounts'[id].availableCredit =
               Min(accounts[id].creditLimit,
                   ClaimedAvailable(v, last'.type, last'.amount))
          /\ accounts'[id].creditLimit = accounts[id].creditLimit]_vars

C3_Witness ==
  /\ last.op = "tx"
  /\ last.result = "ok"
  /\ last.type = "PAYMENT"
  /\ last.amount > 0
  /\ accounts[last.account].availableCredit = accounts[last.account].creditLimit
  /\ accounts[last.account].currentBalance < 0

\* C4: the balance recorded on a ledger entry equals the owning account's
\* currentBalance right after the operation that appended the entry.
C4_EntryBalanceIsAccountBalance ==
  [][Len(ledger') = Len(ledger) + 1 =>
       LET entry == ledger'[Len(ledger')]
       IN entry.balance = accounts'[entry.accountId].currentBalance]_vars

\* C5: in every reachable state availableCredit equals creditLimit - currentBalance
\* clamped into [0, creditLimit].
C5_AvailableIsClampedDifference ==
  \A i \in 1..Len(accounts) :
    accounts[i].availableCredit =
      Max(0, Min(accounts[i].creditLimit,
                 accounts[i].creditLimit - accounts[i].currentBalance))

\* --------------------------------------------------- calculateNextDelivery
\* An instant is day * TicksPerDay + tick.  A delivery time HH:MM has zero
\* seconds and milliseconds: it falls on an even tick; the clock may read any tick.
TicksPerDay == 4
MaxDay == 15

Instants == 0..(MaxDay * TicksPerDay + TicksPerDay - 1)
DeliveryTimes == {t \in 0..(TicksPerDay - 1) : t % 2 = 0}
Frequencies == {"daily", "weekly", "custom"}

dayNames == <<"sunday", "monday", "tuesday", "wednesday", "thursday", "friday", "saturday">>

\* Date.getDay(): day 0 of the model is a Sunday
getDay(instant) == (instant \div TicksPerDay) % 7

\* Date.setHours(hours, minutes, 0, 0): the same calendar day at the delivery time
setHours(instant, deliveryTime) == (instant \div TicksPerDay) * TicksPerDay + deliveryTime

\* mutant: setDate leaves the date where it is
addDaysNone(instant, n) == instant

\* Date.setDate(getDate() + n)
addDays(instant, n) == instant + n * TicksPerDay

\* d.trim().toLowerCase() on the pieces a deliveryDays string is made of here
Normalize(piece) ==
  CASE piece = "Monday" -> "monday"
    [] piece = " thursday" -> "thursday"
    [] piece = "SUNDAY " -> "sunday"
    [] OTHER -> piece

\* deliveryDays.split(',').map(d => d.trim().toLowerCase())
splitDays(deliveryDays) == {Normalize(deliveryDays[i]) : i \in 1..Len(deliveryDays)}

\* deliveryDays strings, as the pieces between their commas; <<>> is null or "",
\* which `if (deliveryDays)` takes alike
DeliveryDayStrings ==
  {<<>>, <<"monday", "thursday">>, <<"Monday", " thursday">>, <<"SUNDAY ">>, <<"funday">>}

\* mutant: the roll-over compares with < and keeps a delivery time equal to now
rollOverStrict(nextDate, at) == IF nextDate < at THEN addDays(nextDate, 1) ELSE nextDate

\* if (nextDate <= now) nextDate.setDate(nextDate.getDate() + 1)
rollOver(nextDate, at) == IF nextDate <= at THEN addDays(nextDate, 1) ELSE nextDate

RECURSIVE dailyLoop(_, _)
dailyLoop(nextDate, at) ==
  IF nextDate <= at THEN dailyLoop(addDays(nextDate, 1), at) ELSE nextDate

RECURSIVE weeklyLoop(_, _)
weeklyLoop(nextDate, at) ==
  IF nextDate <= at THEN weeklyLoop(addDays(nextDate, 7), at) ELSE nextDate

\* while (nextDate <= now) { add a day; if the weekday is not listed continue;
\* if (nextDate > now) break }
RECURSIVE customLoop(_, _, _)
customLoop(nextDate, at, days) ==
  IF nextDate <= at
  THEN LET next == addDays(nextDate, 1)
       IN IF dayNames[getDay(next) + 1] \notin days THEN customLoop(next, at, days)
          ELSE IF next > at THEN next
          ELSE customLoop(next, at, days)
  ELSE nextDate

\* at is the `new Date()` the function takes on entry
calculateNextDelivery(frequency, deliveryTime, deliveryDays, startDate, at) ==
  LET from == IF startDate < at THEN at ELSE startDate
      nextDate == rollOver(setHours(from, deliveryTime), at)
  IN CASE frequency = "daily" -> dailyLoop(nextDate, at)
       [] frequency = "weekly" -> weeklyLoop(nextDate, at)
       [] frequency = "custom" ->
            IF deliveryDays # <<>>
            THEN customLoop(nextDate, at, splitDays(deliveryDays))
            ELSE nextDate

\* one call of the function on inputs the subscription schema accepts
InitSchedVars ==
  \E f \in Frequencies, t \in DeliveryTimes, d \in DeliveryDayStrings,
     s \in Instants, n \in Instants :
    calc = [pc |-> "call", frequency |-> f, deliveryTime |-> t, deliveryDays |-> d,
            startDate |-> s, now |-> n, result |-> 0]

InitSched ==
  /\ InitLedgerVars
  /\ InitSchedVars
  /\ req = <<>>
  /\ now = 0
  /\ subscriptions = <<>>
  /\ deliveries = <<>>
  /\ invoices = <<>>
  /\ subscriptionSettings = <<>>

Compute ==
  /\ calc.pc = "call"
  /\ calc' = [calc EXCEPT
       !.pc = "done",
       !.result = calculateNextDelivery(calc.frequency, calc.deliveryTime,
                                        calc.deliveryDays, calc.startDate, calc.now)]
  /\ UNCHANGED <<ledgerVars, req, now, subscriptions, deliveries, invoices, subscriptionSettings>>

NextSched == Compute

SpecSched == InitSched /\ [][NextSched]_vars

\* C6: calculateNextDelivery returns an instant strictly after now, for every
\* frequency, delivery time, deliveryDays value and start date.
C6_ResultAfterNow == calc.pc = "done" => calc.result > calc.now

\* a past start date whose delivery time has already passed today
C6_Witness ==
  /\ calc.pc = "done"
  /\ calc.startDate < calc.now
  /\ setHours(calc.now, calc.deliveryTime) <= calc.now
  /\ calc.frequency = "custom"
  /\ calc.result > calc.now

\* C7: for frequency custom with a deliveryDays set naming weekdays, the weekday
\* of the result is one of the named days.
C7_CustomResultOnListedDay ==
  (/\ calc.pc = "done"
   /\ calc.frequency = "custom"
   /\ calc.deliveryDays # <<>>
   /\ \E i \in 1..7 : dayNames[i] \in splitDays(calc.deliveryDays))
  => dayNames[getDay(calc.result) + 1] \in splitDays(calc.deliveryDays)

\* C8: for frequency weekly, when the delivery time on the reference day is not
\* after now, the result falls on the weekday of the reference start date.
C8_WeeklyKeepsWeekday ==
  (/\ calc.pc = "done"
   /\ calc.frequency = "weekly"
   /\ setHours(Max(calc.startDate, calc.now), calc.deliveryTime) <= calc.now)
  => getDay(calc.result) = getDay(calc.startDate)

\* ------------------------------- concurrent POST /api/credit/transactions
\* Requests run on one event loop: the code between two awaits is one step, and
\* requests interleave at the awaits (each await is one database call).
MaxRequests == 2

Requests == 1..MaxRequests

Idle == [pc |-> "idle", result |-> "none", accountId |-> 0, type |-> "", amount |-> 0,
         snapshot |-> {}, newBalance |-> 0, newAvailableCredit |-> 0,
         readAt |-> 0, writeAt |-> 0]

\* the state of the ledger after one cod order of a new customer and the creation
\* of that customer's credit account
InitRace ==
  /\ customers = (<<1, 1>> :> [totalOrders |-> 1, totalSpent |-> 0])
  /\ orders = <<[shopId |-> 1, customerId |-> <<1, 1>>, totalAmount |-> 0,
                 paymentMethod |-> "cod", paymentStatus |-> "pending",
                 creditAccountId |-> 0]>>
  /\ \E l \in Limits :
       /\ accounts = <<[customerId |-> <<1, 1>>, shopId |-> 1, creditLimit |-> l,
                        currentBalance |-> DefaultCurrentBalance,
                        availableCredit |-> l,
                        creditScore |-> calculateCreditScore(customers[<<1, 1>>], {}),
                        isActive |-> TRUE, lastPaymentDate |-> {}]>>
       /\ ledger = <<[accountId |-> 1, type |-> "CREDIT", amount |-> l,
                      balance |-> InitialEntryBalance(l)]>>
       /\ last = Response("account", "ok", 1, "CREDIT", l)
  /\ payments = <<>>
  /\ clock = 2
  /\ req = [p \in Requests |-> Idle]
  /\ calc = <<>>
  /\ now = 0
  /\ subscriptions = <<>>
  /\ deliveries = <<>>
  /\ invoices = <<>>
  /\ subscriptionSettings = <<>>

\* await db.creditAccount.findFirst, then the checks and the switch up to the
\* next await
ReadAccount(p, auth, accountId, type, amount) ==
  /\ req[p].pc = "idle"
  /\ clock' = clock + 1
  /\ LET found == FindAccount(accountId, auth)
         r == [req[p] EXCEPT !.accountId = accountId, !.type = type,
                             !.amount = amount, !.readAt = clock']
     IN IF found = {}
        THEN req' = [req EXCEPT ![p] = [r EXCEPT !.pc = "done", !.result = "not_found"]]
        ELSE LET creditAccount == CHOOSE x \in found : TRUE
                 newBalance == TxNewBalance(creditAccount.currentBalance, type, amount)
                 newAvailableCredit ==
                   CapAvailable(TxNewAvailable(creditAccount.availableCredit, type, amount),
                                creditAccount.creditLimit)
             IN IF ~creditAccount.isActive
                THEN req' = [req EXCEPT ![p] =
                               [r EXCEPT !.pc = "done", !.result = "inactive"]]
                ELSE IF ExceedsLimit(newBalance, creditAccount.creditLimit)
                THEN req' = [req EXCEPT ![p] =
                               [r EXCEPT !.pc = "done", !.result = "limit_exceeded"]]
                ELSE req' = [req EXCEPT ![p] =
                               [r EXCEPT !.pc = "create",
                                         !.snapshot = {creditAccount},
                                         !.newBalance = newBalance,
                                         !.newAvailableCredit = newAvailableCredit]]
  /\ UNCHANGED <<customers, accounts, ledger, orders, payments, last>>

\* await db.creditTransaction.create
CreateTransaction(p) ==
  /\ req[p].pc = "create"
  /\ clock' = clock + 1
  /\ ledger' = Append(ledger, [accountId |-> req[p].accountId, type |-> req[p].type,
                               amount |-> req[p].amount, balance |-> req[p].newBalance])
  /\ req' = [req EXCEPT ![p].pc = "update"]
  /\ UNCHANGED <<customers, accounts, orders, payments, last>>

\* mutant: the update adds the request's delta to the balance the row holds now
WrittenBalanceFromRow(current, r) == TxNewBalance(current, r.type, r.amount)

\* the balance the update writes: the one computed from the row read at the start
WrittenBalance(current, r) == r.newBalance

\* await db.creditAccount.update({currentBalance, availableCredit})
UpdateAccount(p) ==
  /\ req[p].pc = "update"
  /\ clock' = clock + 1
  /\ accounts' = [accounts EXCEPT ![req[p].accountId] =
       [@ EXCEPT !.currentBalance = WrittenBalance(@, req[p]),
                 !.availableCredit = req[p].newAvailableCredit]]
  /\ req' = [req EXCEPT ![p] =
       [@ EXCEPT !.writeAt = clock',
                 !.pc = IF req[p].type = "PAYMENT" THEN "followup" ELSE "done",
                 !.result = IF req[p].type = "PAYMENT" THEN "none" ELSE "ok"]]
  /\ UNCHANGED <<customers, ledger, orders, payments, last>>

\* a PAYMENT: the customer and settings reads, then
\* await db.creditAccount.update({lastPaymentDate, creditScore})
FollowUp(p, creditSettings) ==
  /\ req[p].pc = "followup"
  /\ clock' = clock + 1
  /\ LET snapshot == CHOOSE x \in req[p].snapshot : TRUE
         scored == PaymentFollowUp(snapshot, clock', creditSettings)
     IN accounts' = [accounts EXCEPT ![req[p].accountId] =
          [@ EXCEPT !.lastPaymentDate = scored.lastPaymentDate,
                    !.creditScore = IF scored.creditScore # snapshot.creditScore
                                    THEN scored.creditScore ELSE @]]
  /\ req' = [req EXCEPT ![p] = [@ EXCEPT !.pc = "done", !.result = "ok"]]
  /\ UNCHANGED <<customers, ledger, orders, payments, last>>

DoReadAccount ==
  /\ \E p \in Requests, auth \in Shops, id \in AccountIds, t \in TxTypes,
        a \in TxAmounts : ReadAccount(p, auth, id, t, a)
  /\ UNCHANGED <<calc, now, subscriptions, deliveries, invoices, subscriptionSettings>>

DoCreateTransaction ==
  /\ \E p \in Requests : CreateTransaction(p)
  /\ UNCHANGED <<calc, now, subscriptions, deliveries, invoices, subscriptionSettings>>

DoUpdateAccount ==
  /\ \E p \in Requests : UpdateAccount(p)
  /\ UNCHANGED <<calc, now, subscriptions, deliveries, invoices, subscriptionSettings>>

DoFollowUp ==
  /\ \E p \in Requests, cs \in CreditSettingsRows : FollowUp(p, cs)
  /\ UNCHANGED <<calc, now, subscriptions, deliveries, invoices, subscriptionSettings>>

NextRace == DoReadAccount \/ DoCreateTransaction \/ DoUpdateAccount \/ DoFollowUp

SpecRace == InitRace /\ [][NextRace]_vars

\* the requests that were accepted and have written the account
Writers == {p \in Requests : req[p].pc = "done" /\ req[p].result = "ok"}

AllDone == \A p \in Requests : req[p].pc = "done"

\* every accepted request read the account before any of them wrote it
ReadsBeforeWrites == \A p \in Writers, q \in Writers : req[p].readAt < req[q].writeAt

LastWriter == CHOOSE p \in Writers : \A q \in Writers : req[q].writeAt <= req[p].writeAt

\* the balance the endpoint leaves when request p is applied alone to balance b
SerialApply(b, p) ==
  LET nb == ClaimedBalance(b, req[p].type, req[p].amount)
  IN IF nb > accounts[1].creditLimit THEN b ELSE nb

\* C9: when concurrent credit-transaction requests on one account all read the
\* account before any of them writes it, all succeed and all their ledger entries
\* are appended, yet the final currentBalance is the one the last writer computed
\* from the balance it read: it reflects only that request.
C9_LostUpdate ==
  (AllDone /\ Cardinality(Writers) >= 2 /\ ReadsBeforeWrites) =>
    /\ Len(ledger) = 1 + Cardinality(Writers)
    /\ \A p \in Writers : \E i \in 2..Len(ledger) :
         /\ ledger[i].type = req[p].type
         /\ ledger[i].amount = req[p].amount
         /\ ledger[i].balance = req[p].newBalance
    /\ accounts[1].currentBalance =
         ClaimedBalance(DefaultCurrentBalance, req[LastWriter].type, req[LastWriter].amount)

\* both requests succeeded and the final balance is that of neither serial order
C9_Witness ==
  /\ AllDone
  /\ Writers = {1, 2}
  /\ ReadsBeforeWrites
  /\ Len(ledger) = 3
  /\ accounts[1].currentBalance # SerialApply(SerialApply(DefaultCurrentBalance, 1), 2)
  /\ accounts[1].currentBalance # SerialApply(SerialApply(DefaultCurrentBalance, 2), 1)

\* ------------------------------------------- subscriptions and deliveries
\* One product per shop; a subscription or delivery id is the row's index.
MaxNow == 1
MaxDeliveries == 3
MaxQuantity == 1

DeliveryStatuses == {"SCHEDULED", "DELIVERED", "SKIPPED", "CANCELLED", "FAILED"}
Quantities == 1..MaxQuantity
\* pricePerUnit: z.number().min(0)
Prices == {3}
\* the deliveryDays strings a subscription is created with here
SubscriptionDays == {<<>>, <<"monday", "thursday">>}
\* startDate of a new subscription: not after now, or tomorrow
StartDates == {0, addDays(now, 1)}

\* columns the create calls leave to the schema
DefaultIsActive == TRUE
DefaultPaused == FALSE

otherVars == <<customers, accounts, ledger, orders, payments, req, calc, subscriptionSettings>>

\* a || b on an optional number: null and 0 are both falsy
OrElse(optional, fallback) ==
  IF optional = {} \/ optional = {0} THEN fallback ELSE CHOOSE x \in optional : TRUE

\* the id of the row a request creates: no handler creates two rows of one table
NewId == clock + 1

\* createDeliverySchedule of the subscriptions route
createDeliverySchedule(subscriptionId, subscription) ==
  [id |-> NewId, subscriptionId |-> subscriptionId,
   deliveryDate |-> calculateNextDelivery(subscription.frequency, subscription.deliveryTime,
                                          subscription.deliveryDays, subscription.startDate, now),
   scheduledTime |-> subscription.deliveryTime,
   status |-> "SCHEDULED",
   quantity |-> subscription.quantity,
   actualQuantity |-> {}, actualPrice |-> {}, deliveredAt |-> {}]

\* POST /api/subscriptions
SubscriptionPost(auth, shopId, customerKey, quantity, pricePerUnit, frequency, deliveryTime, deliveryDays, startDate, autoCharge, productOk) ==
  LET existingSubscription ==
        {i \in 1..Len(subscriptions) :
           /\ subscriptions[i].customerId = customerKey
           /\ subscriptions[i].shopId = shopId}
      subscription ==
        [customerId |-> customerKey, shopId |-> shopId, quantity |-> quantity,
         pricePerUnit |-> pricePerUnit, frequency |-> frequency,
         deliveryTime |-> deliveryTime, deliveryDays |-> deliveryDays,
         startDate |-> startDate, endDate |-> {},
         nextDelivery |-> {calculateNextDelivery(frequency, deliveryTime, deliveryDays,
                                                 startDate, now)},
         autoCharge |-> autoCharge, isActive |-> DefaultIsActive,
         paused |-> DefaultPaused, lastCharged |-> {}]
      id == Len(subscriptions) + 1
      rejected(result) ==
        /\ last' = Response("subscription", result, 0, "", 0)
        /\ UNCHANGED <<subscriptions, deliveries>>
  IN /\ clock < MaxOps
     /\ clock' = clock + 1
     /\ UNCHANGED <<otherVars, now, invoices>>
     /\ IF shopId # auth THEN rejected("shop_mismatch")
        ELSE IF customerKey \notin DOMAIN customers \/ customerKey[1] # shopId
        THEN rejected("customer_not_found")
        ELSE IF ~productOk THEN rejected("product_not_found")
        ELSE IF existingSubscription # {} THEN rejected("exists")
        ELSE /\ subscriptions' = Append(subscriptions, subscription)
             /\ deliveries' = Append(deliveries, createDeliverySchedule(id, subscription))
             /\ last' = Response("subscription", "ok", id, frequency, 0)

\* mutant: the next delivery is today's delivery time, already passed or not
createNextDeliveryToday(subscriptionId, rows) ==
  LET subscription == subscriptions[subscriptionId]
  IN IF ~subscription.isActive THEN rows
     ELSE Append(rows, [id |-> NewId, subscriptionId |-> subscriptionId,
                        deliveryDate |-> setHours(now, subscription.deliveryTime),
                        scheduledTime |-> subscription.deliveryTime,
                        status |-> "SCHEDULED",
                        quantity |-> subscription.quantity,
                        actualQuantity |-> {}, actualPrice |-> {}, deliveredAt |-> {}])

\* createNextDelivery of the deliveries route: the start date it passes is new Date()
createNextDelivery(subscriptionId, rows) ==
  LET subscription == subscriptions[subscriptionId]
      nextDeliveryDate == calculateNextDelivery(subscription.frequency,
                            subscription.deliveryTime, subscription.deliveryDays, now, now)
      thirtyDaysFromNow == addDays(now, 30)
  IN IF ~subscription.isActive THEN rows
     ELSE IF nextDeliveryDate <= thirtyDaysFromNow
     THEN Append(rows, [id |-> NewId, subscriptionId |-> subscriptionId,
                        deliveryDate |-> nextDeliveryDate,
                        scheduledTime |-> subscription.deliveryTime,
                        status |-> "SCHEDULED",
                        quantity |-> subscription.quantity,
                        actualQuantity |-> {}, actualPrice |-> {}, deliveredAt |-> {}])
     ELSE rows

\* the amount createSubscriptionInvoice bills for the delivery row it is handed
InvoiceAmount(subscription, delivery) ==
  OrElse(delivery.actualPrice,
         subscription.pricePerUnit * OrElse(delivery.actualQuantity, delivery.quantity))

\* createSubscriptionInvoice: the invoice row; paidAmount and balanceAmount are
\* left to the schema
createSubscriptionInvoice(subscriptionId, delivery) ==
  LET subscription == subscriptions[subscriptionId]
  IN [customerId |-> subscription.customerId, shopId |-> subscription.shopId,
      totalAmount |-> InvoiceAmount(subscription, delivery),
      status |-> "SENT", dueDate |-> addDays(now, 7), reference |-> subscriptionId]

\* mutant: a failed invoice creation undoes the delivery update
RolledBack(written, before) == before

\* the handler runs no transaction: when db.invoice.create throws, the catch
\* answers 500 and the delivery rows stay as written
AfterInvoiceFailure(written, before) == written

\* PUT /api/deliveries?id=deliveryId; a field of body is {} when the request omits
\* it; invoiceFails: db.invoice.create throws
DeliveryPut(auth, deliveryId, body, invoiceFails) ==
  LET found == {i \in 1..Len(deliveries) :
                  /\ deliveries[i].id = deliveryId
                  /\ subscriptions[deliveries[i].subscriptionId].shopId = auth}
  IN /\ clock < MaxOps
     /\ clock' = clock + 1
     /\ IF found = {}
        THEN /\ last' = Response("delivery_put", "not_found", 0, "", 0)
             /\ UNCHANGED <<otherVars, now, subscriptions, deliveries, invoices>>
        ELSE LET row == CHOOSE i \in found : TRUE
                 existingDelivery == deliveries[row]
                 subscriptionId == existingDelivery.subscriptionId
                 subscription == subscriptions[subscriptionId]
                 delivered == body.status = {"DELIVERED"}
                 updatedDelivery ==
                   [existingDelivery EXCEPT
                      !.status = IF body.status = {} THEN @ ELSE CHOOSE x \in body.status : TRUE,
                      !.quantity = IF body.quantity = {} THEN @
                                   ELSE CHOOSE x \in body.quantity : TRUE,
                      !.actualQuantity = IF body.actualQuantity = {} THEN @
                                         ELSE body.actualQuantity,
                      !.actualPrice = IF body.actualPrice = {} THEN @ ELSE body.actualPrice,
                      !.deliveredAt = IF delivered THEN {now} ELSE @]
                 updated == [deliveries EXCEPT ![row] = updatedDelivery]
                 written == IF delivered /\ subscription.isActive
                            THEN createNextDelivery(subscriptionId, updated)
                            ELSE updated
             IN /\ IF delivered /\ subscription.autoCharge
                   THEN IF invoiceFails
                        THEN /\ deliveries' = AfterInvoiceFailure(written, deliveries)
                             /\ last' = Response("delivery_put", "invoice_failed",
                                                 deliveryId, "DELIVERED", 0)
                             /\ UNCHANGED <<invoices, subscriptions>>
                        ELSE /\ deliveries' = written
                             /\ invoices' = Append(invoices,
                                  createSubscriptionInvoice(subscriptionId, existingDelivery))
                             /\ subscriptions' = [subscriptions EXCEPT
                                  ![subscriptionId].lastCharged = {now}]
                             /\ last' = Response("delivery_put", "ok", deliveryId,
                                                 "DELIVERED", 0)
                   ELSE /\ deliveries' = written
                        /\ last' = Response("delivery_put", "ok", deliveryId,
                                            IF delivered THEN "DELIVERED" ELSE "", 0)
                        /\ UNCHANGED <<invoices, subscriptions>>
                /\ UNCHANGED <<otherVars, now>>

\* POST /api/deliveries: a manual delivery
DeliveryPost(auth, subscriptionId, deliveryDate, quantity) ==
  LET found == {i \in 1..Len(subscriptions) :
                  i = subscriptionId /\ subscriptions[i].shopId = auth}
  IN /\ clock < MaxOps
     /\ clock' = clock + 1
     /\ UNCHANGED <<otherVars, now, subscriptions, invoices>>
     /\ IF quantity = 0
        THEN /\ last' = Response("delivery_post", "required", 0, "", 0)
             /\ UNCHANGED deliveries
        ELSE IF found = {}
        THEN /\ last' = Response("delivery_post", "not_found", 0, "", 0)
             /\ UNCHANGED deliveries
        ELSE /\ deliveries' = Append(deliveries,
                  [id |-> NewId, subscriptionId |-> subscriptionId,
                   deliveryDate |-> deliveryDate,
                   scheduledTime |-> subscriptions[subscriptionId].deliveryTime,
                   status |-> "SCHEDULED", quantity |-> quantity,
                   actualQuantity |-> {}, actualPrice |-> {}, deliveredAt |-> {}])
             /\ last' = Response("delivery_post", "ok", subscriptionId, "SCHEDULED", 0)

\* mutant: a delivery dated exactly at the instant of the deletion is kept
deleteManyAfter(rows, subscriptionId, gte) ==
  SelectSeq(rows, LAMBDA r : ~(r.subscriptionId = subscriptionId /\ r.deliveryDate > gte))

\* db.deliverySchedule.deleteMany({where: {subscriptionId, deliveryDate: {gte}}}):
\* the rows that stay
deleteManyFrom(rows, subscriptionId, gte) ==
  SelectSeq(rows, LAMBDA r : ~(r.subscriptionId = subscriptionId /\ r.deliveryDate >= gte))

\* mutant: only SCHEDULED deliveries are deleted, the history is kept
deleteScheduled(rows, subscriptionId) ==
  SelectSeq(rows, LAMBDA r : ~(r.subscriptionId = subscriptionId /\ r.status = "SCHEDULED"))

\* db.deliverySchedule.deleteMany({where: {subscriptionId}}): the rows that stay
deleteMany(rows, subscriptionId) ==
  SelectSeq(rows, LAMBDA r : r.subscriptionId # subscriptionId)

\* createDeliverySchedule of the subscription-actions route: it computes from
\* new Date() and creates the row only within thirty days
createDeliveryScheduleFromNow(subscriptionId, subscription, rows) ==
  LET nextDeliveryDate == calculateNextDelivery(subscription.frequency,
                            subscription.deliveryTime, subscription.deliveryDays, now, now)
      thirtyDaysFromNow == addDays(now, 30)
  IN IF nextDeliveryDate <= thirtyDaysFromNow
     THEN Append(rows, [id |-> NewId, subscriptionId |-> subscriptionId,
                        deliveryDate |-> nextDeliveryDate,
                        scheduledTime |-> subscription.deliveryTime,
                        status |-> "SCHEDULED",
                        quantity |-> subscription.quantity,
                        actualQuantity |-> {}, actualPrice |-> {}, deliveredAt |-> {}])
     ELSE rows

SubscriptionActions == {"pause", "resume", "cancel", "skip"}

\* POST of the subscription-actions route, body {subscriptionId, action}
SubscriptionAction(auth, subscriptionId, action) ==
  LET found == {i \in 1..Len(subscriptions) :
                  i = subscriptionId /\ subscriptions[i].shopId = auth}
      settings == subscriptionSettings[auth]
      rejected(result) ==
        /\ last' = Response("action", result, 0, action, 0)
        /\ UNCHANGED <<subscriptions, deliveries>>
  IN /\ clock < MaxOps
     /\ clock' = clock + 1
     /\ UNCHANGED <<otherVars, now, invoices>>
     /\ IF found = {} THEN rejected("not_found")
        ELSE IF settings = {} THEN rejected("settings_not_found")
        ELSE LET subscription == subscriptions[subscriptionId]
                 row == CHOOSE x \in settings : TRUE
             IN CASE action = "pause" ->
                       IF ~row.allowPause THEN rejected("not_allowed")
                       ELSE /\ subscriptions' = [subscriptions EXCEPT ![subscriptionId] =
                                 [@ EXCEPT !.paused = TRUE, !.nextDelivery = {}]]
                            /\ deliveries' = deleteManyFrom(deliveries, subscriptionId, now)
                            /\ last' = Response("action", "ok", subscriptionId, action, 0)
                  [] action = "resume" ->
                       /\ subscriptions' = [subscriptions EXCEPT ![subscriptionId] =
                            [@ EXCEPT !.paused = FALSE,
                                      !.nextDelivery = {calculateNextDelivery(
                                          subscription.frequency, subscription.deliveryTime,
                                          subscription.deliveryDays, now, now)}]]
                       /\ deliveries' = createDeliveryScheduleFromNow(subscriptionId,
                                                                      subscription, deliveries)
                       /\ last' = Response("action", "ok", subscriptionId, action, 0)
                  [] action = "cancel" ->
                       IF ~row.allowCancel THEN rejected("not_allowed")
                       ELSE /\ deliveries' = deleteMany(deliveries, subscriptionId)
                            /\ subscriptions' = [subscriptions EXCEPT ![subscriptionId] =
                                 [@ EXCEPT !.isActive = FALSE, !.endDate = {now},
                                           !.nextDelivery = {}]]
                            /\ last' = Response("action", "ok", subscriptionId, action, 0)
                  [] OTHER -> rejected("invalid_action")

\* a || b on an optional request field that is truthy whenever it is sent
Sent(optional, existing) == IF optional = {} THEN existing ELSE CHOOSE x \in optional : TRUE

\* PUT /api/subscriptions?id=subscriptionId; a field of body is {} when the
\* request omits it.  deliveryDays <<>> is the empty string, which is falsy.
SubscriptionPut(auth, subscriptionId, body) ==
  LET found == {i \in 1..Len(subscriptions) :
                  i = subscriptionId /\ subscriptions[i].shopId = auth}
  IN /\ clock < MaxOps
     /\ clock' = clock + 1
     /\ UNCHANGED <<otherVars, now, deliveries, invoices>>
     /\ IF found = {}
        THEN /\ last' = Response("subscription_put", "not_found", 0, "", 0)
             /\ UNCHANGED subscriptions
        ELSE LET existingSubscription == subscriptions[subscriptionId]
                 daysTruthy == body.deliveryDays # {} /\ body.deliveryDays # {<<>>}
                 recalculate == body.frequency # {} \/ body.deliveryTime # {} \/ daysTruthy
                 updated == [existingSubscription EXCEPT
                   !.quantity = Sent(body.quantity, @),
                   !.frequency = Sent(body.frequency, @),
                   !.deliveryTime = Sent(body.deliveryTime, @),
                   !.deliveryDays = Sent(body.deliveryDays, @),
                   !.autoCharge = Sent(body.autoCharge, @),
                   !.paused = Sent(body.paused, @),
                   !.nextDelivery =
                      IF recalculate
                      THEN {calculateNextDelivery(
                              Sent(body.frequency, existingSubscription.frequency),
                              Sent(body.deliveryTime, existingSubscription.deliveryTime),
                              IF daysTruthy THEN Sent(body.deliveryDays, <<>>)
                              ELSE existingSubscription.deliveryDays,
                              existingSubscription.startDate, now)}
                      ELSE @]
             IN /\ subscriptions' = [subscriptions EXCEPT ![subscriptionId] = updated]
                /\ last' = Response("subscription_put", "ok", subscriptionId, "", 0)

\* the request bodies of a subscription update
NoChange ==
  [quantity |-> {}, frequency |-> {}, deliveryTime |-> {}, deliveryDays |-> {},
   autoCharge |-> {}, paused |-> {}]

SubscriptionUpdates ==
  {[NoChange EXCEPT !.paused = {p}] : p \in BOOLEAN}
    \cup {[NoChange EXCEPT !.frequency = {"weekly"}],
          [NoChange EXCEPT !.deliveryTime = {2}, !.autoCharge = {TRUE}]}

\* the clock advances between requests
Tick ==
  /\ now < MaxNow
  /\ now' = now + 1
  /\ UNCHANGED <<otherVars, clock, last, subscriptions, deliveries, invoices>>

\* the request bodies of a delivery update
NoUpdate == [status |-> {}, quantity |-> {}, actualQuantity |-> {}, actualPrice |-> {}]

DeliveryUpdates ==
  {[NoUpdate EXCEPT !.status = {st}] : st \in DeliveryStatuses}
    \cup {[NoUpdate EXCEPT !.status = {"DELIVERED"}, !.actualQuantity = {2}],
          [NoUpdate EXCEPT !.status = {"DELIVERED"}, !.actualPrice = {5}]}

\* the SubscriptionSettings row of a shop: none, or one that allows or forbids
\* pausing and cancelling
SubscriptionSettingsRows ==
  {{}} \cup {{[allowPause |-> a, allowCancel |-> a]} : a \in BOOLEAN}

\* a policy that allows pausing and cancelling
AllowAll == {[allowPause |-> TRUE, allowCancel |-> TRUE]}

\* shop 1 has one customer; shop 2 has none; both shops have the same settings
InitDeliveryRows ==
  /\ customers = (<<1, 1>> :> [totalOrders |-> 0, totalSpent |-> 0])
  /\ accounts = <<>>
  /\ ledger = <<>>
  /\ orders = <<>>
  /\ payments = <<>>
  /\ clock = 0
  /\ last = NoResponse
  /\ req = <<>>
  /\ calc = <<>>
  /\ now = 0
  /\ subscriptions = <<>>
  /\ deliveries = <<>>
  /\ invoices = <<>>

InitDelivery ==
  /\ InitDeliveryRows
  /\ subscriptionSettings = [shop \in Shops |-> AllowAll]

\* the fields of a create request the handler reads only once it has passed the
\* shop, customer, product and duplicate checks; a subscription is created daily,
\* or custom with its days (weekly comes by an update)
SubscriptionFields ==
  {b \in [quantity : Quantities, pricePerUnit : Prices, frequency : {"daily", "custom"},
          deliveryTime : DeliveryTimes, deliveryDays : SubscriptionDays,
          startDate : StartDates, autoCharge : BOOLEAN] :
     b.deliveryDays # <<>> <=> b.frequency = "custom"}

PassesChecks(auth, shopId, customerKey, productOk) ==
  /\ shopId = auth
  /\ customerKey \in DOMAIN customers
  /\ customerKey[1] = shopId
  /\ productOk
  /\ \A i \in 1..Len(subscriptions) :
       ~(subscriptions[i].customerId = customerKey /\ subscriptions[i].shopId = shopId)

FieldsRead(auth, shopId, customerKey, productOk) ==
  IF PassesChecks(auth, shopId, customerKey, productOk) THEN SubscriptionFields
  ELSE {CHOOSE b \in SubscriptionFields : TRUE}

DoSubscriptionPost ==
  \E auth \in Shops, shopId \in Shops, ck \in CustomerKeys, productOk \in BOOLEAN :
    \E b \in FieldsRead(auth, shopId, ck, productOk) :
      SubscriptionPost(auth, shopId, ck, b.quantity, b.pricePerUnit, b.frequency,
                       b.deliveryTime, b.deliveryDays, b.startDate, b.autoCharge, productOk)

\* the ids of the rows that exist, and one of no row
DeliveryIds == {deliveries[i].id : i \in 1..Len(deliveries)} \cup {0}

\* db.invoice.create runs, and may throw, only for a DELIVERED update of a
\* delivery of an autoCharge subscription
InvoiceOutcomes(deliveryId, body) ==
  IF /\ body.status = {"DELIVERED"}
     /\ \E i \in 1..Len(deliveries) :
          /\ deliveries[i].id = deliveryId
          /\ subscriptions[deliveries[i].subscriptionId].autoCharge
  THEN BOOLEAN ELSE {FALSE}

DoDeliveryPut ==
  \E auth \in Shops, id \in DeliveryIds, body \in DeliveryUpdates :
    /\ body.status = {"DELIVERED"} =>
         (Len(deliveries) < MaxDeliveries /\ Len(invoices) < MaxDeliveries)
    /\ \E invoiceFails \in InvoiceOutcomes(id, body) : DeliveryPut(auth, id, body, invoiceFails)

DoDeliveryPost ==
  \E auth \in Shops, id \in 1..(Len(subscriptions) + 1),
     date \in {0, addDays(now, 1)}, q \in 0..1 :
    /\ Len(deliveries) < MaxDeliveries
    /\ DeliveryPost(auth, id, date, q)

DoSubscriptionAction ==
  \E auth \in Shops, id \in 1..(Len(subscriptions) + 1), action \in SubscriptionActions :
    SubscriptionAction(auth, id, action)

DoSubscriptionPut ==
  \E auth \in Shops, id \in 1..(Len(subscriptions) + 1), body \in SubscriptionUpdates :
    SubscriptionPut(auth, id, body)

\* deliveries of a subscription from its creation to its cancellation
NextDelivery ==
  \/ DoSubscriptionPost
  \/ DoDeliveryPut
  \/ DoDeliveryPost
  \/ DoSubscriptionAction
  \/ Tick

SpecDelivery == InitDelivery /\ [][NextDelivery]_vars

\* the life of a subscription under any shop policy: create, update, pause,
\* resume, cancel, manual and completed deliveries
InitSubscription ==
  /\ InitDeliveryRows
  /\ \E row \in SubscriptionSettingsRows : subscriptionSettings = [shop \in Shops |-> row]

\* a delivery is completed: the update that only sets status DELIVERED
DoDeliveryComplete ==
  \E auth \in Shops, id \in DeliveryIds :
    /\ Len(deliveries) < MaxDeliveries
    /\ DeliveryPut(auth, id, [NoUpdate EXCEPT !.status = {"DELIVERED"}], FALSE)

NextSubscription ==
  \/ DoSubscriptionPost
  \/ DoSubscriptionAction
  \/ DoSubscriptionPut
  \/ DoDeliveryPost
  \/ DoDeliveryComplete
  \/ Tick

SpecSubscription == InitSubscription /\ [][NextSubscription]_vars

\* C10: once a DeliverySchedule row has status DELIVERED, no request changes its
\* status to another value.
C10_DeliveredIsFinal ==
  [][\A d \in 1..Len(deliveries), e \in 1..Len(deliveries') :
       (deliveries[d].status = "DELIVERED" /\ deliveries'[e].id = deliveries[d].id)
         => deliveries'[e].status = "DELIVERED"]_vars

\* the row of a delivery id
DeliveryRow(rows, id) == rows[CHOOSE i \in 1..Len(rows) : rows[i].id = id]

\* this step is an accepted delivery update with status DELIVERED
MarkedDelivered ==
  /\ clock' = clock + 1
  /\ last'.op = "delivery_put"
  /\ last'.result = "ok"
  /\ last'.type = "DELIVERED"

\* the subscription of the delivery the step updated, as it was before the step
UpdatedSubscription == subscriptions[DeliveryRow(deliveries, last'.account).subscriptionId]

\* the rows the step created (their id is the number of the request)
CreatedDeliveries == {i \in 1..Len(deliveries') : deliveries'[i].id = clock'}

\* C11: when a delivery of an active subscription is marked DELIVERED, the
\* subscription's nextDelivery afterwards is the date of the SCHEDULED delivery
\* the request created.
C11_NextDeliveryRecomputed ==
  [][(MarkedDelivered /\ UpdatedSubscription.isActive) =>
       \E i \in CreatedDeliveries :
         /\ deliveries'[i].status = "SCHEDULED"
         /\ subscriptions'[deliveries'[i].subscriptionId].nextDelivery
              = {deliveries'[i].deliveryDate}]_vars

\* C12: a delivery marked DELIVERED gets a deliveredAt timestamp; if its
\* subscription is active exactly one new row is created, SCHEDULED, with the
\* subscription's quantity and a date strictly after now; if the subscription is
\* inactive no row is created.
C12_CompletionSchedulesNext ==
  [][MarkedDelivered =>
       LET done == DeliveryRow(deliveries', last'.account)
       IN /\ done.status = "DELIVERED"
          /\ done.deliveredAt = {now}
          /\ IF UpdatedSubscription.isActive
             THEN /\ Len(deliveries') = Len(deliveries) + 1
                  /\ Cardinality(CreatedDeliveries) = 1
                  /\ \A i \in CreatedDeliveries :
                       /\ deliveries'[i].status = "SCHEDULED"
                       /\ deliveries'[i].subscriptionId = done.subscriptionId
                       /\ deliveries'[i].quantity = UpdatedSubscription.quantity
                       /\ deliveries'[i].deliveryDate > now
             ELSE /\ Len(deliveries') = Len(deliveries)
                  /\ CreatedDeliveries = {}]_vars

\* a delivery of a cancelled subscription has just been marked DELIVERED
C12_Witness ==
  /\ last.op = "delivery_put"
  /\ last.result = "ok"
  /\ last.type = "DELIVERED"
  /\ \E i \in 1..Len(deliveries) :
       /\ deliveries[i].id = last.account
       /\ deliveries[i].deliveredAt = {now}
       /\ ~subscriptions[deliveries[i].subscriptionId].isActive
  /\ \A i \in 1..Len(deliveries) : deliveries[i].id # clock

\* actualPrice if recorded, else pricePerUnit * (actualQuantity if recorded, else
\* the planned quantity)
ClaimedInvoiceAmount(subscription, delivery) ==
  IF delivery.actualPrice # {} THEN CHOOSE x \in delivery.actualPrice : TRUE
  ELSE subscription.pricePerUnit *
         (IF delivery.actualQuantity # {} THEN CHOOSE x \in delivery.actualQuantity : TRUE
          ELSE delivery.quantity)

\* C13: the invoice generated when a delivery of an autoCharge subscription is
\* marked DELIVERED bills the amount of the delivery row as stored after the
\* completing update, values supplied in that request included.
C13_InvoiceBillsStoredDelivery ==
  [][(MarkedDelivered /\ UpdatedSubscription.autoCharge) =>
       /\ Len(invoices') = Len(invoices) + 1
       /\ invoices'[Len(invoices')].totalAmount =
            ClaimedInvoiceAmount(UpdatedSubscription,
                                 DeliveryRow(deliveries', last'.account))]_vars

\* C14: when invoice creation fails in a delivery-completion request, the
\* delivery stays DELIVERED with its deliveredAt timestamp after the request.
C14_FailedInvoiceKeepsCompletion ==
  [][(clock' = clock + 1 /\ last'.op = "delivery_put" /\ last'.result = "invoice_failed") =>
       /\ \E i \in 1..Len(deliveries') :
            /\ deliveries'[i].id = last'.account
            /\ deliveries'[i].status = "DELIVERED"
            /\ deliveries'[i].deliveredAt = {now}
       /\ invoices' = invoices]_vars

\* a completion whose invoice failed, on a delivery that was not DELIVERED before
C14_Witness ==
  /\ last.op = "delivery_put"
  /\ last.result = "invoice_failed"
  /\ invoices = <<>>
  /\ \E i \in 1..Len(deliveries) :
       /\ deliveries[i].id = last.account
       /\ deliveries[i].status = "DELIVERED"
       /\ deliveries[i].deliveredAt = {now}
       /\ subscriptions[deliveries[i].subscriptionId].autoCharge

\* the shop's policy allows pausing
PauseAllowed(shopId) ==
  \E row \in subscriptionSettings[shopId] : row.allowPause

\* C15: whatever the operation, a subscription's paused flag goes from false to
\* true only when the shop's allowPause setting is true.
C15_PauseNeedsPolicy ==
  [][\A i \in 1..Len(subscriptions) :
       (i \in 1..Len(subscriptions') /\ ~subscriptions[i].paused /\ subscriptions'[i].paused)
         => PauseAllowed(subscriptions[i].shopId)]_vars

\* this step is a request of the subscription-actions route with the given action
ActionStep(action) ==
  /\ clock' = clock + 1
  /\ last'.op = "action"
  /\ last'.type = action

CancelAllowed(shopId) ==
  \E row \in subscriptionSettings[shopId] : row.allowCancel

CancelForbidden(shopId) ==
  \E row \in subscriptionSettings[shopId] : ~row.allowCancel

DeliveriesOf(rows, subscriptionId) ==
  {i \in 1..Len(rows) : rows[i].subscriptionId = subscriptionId}

ScheduledFrom(rows, subscriptionId, instant) ==
  {i \in DeliveriesOf(rows, subscriptionId) :
     rows[i].status = "SCHEDULED" /\ rows[i].deliveryDate >= instant}

\* C17: when a resume follows a pause of the same subscription, afterwards the
\* subscription is not paused, its nextDelivery is set and not before the instant
\* of the resume, and exactly one SCHEDULED delivery dated at or after that
\* instant exists for it.
C17_PauseResumeRoundTrip ==
  [][(/\ last.op = "action" /\ last.type = "pause" /\ last.result = "ok"
      /\ ActionStep("resume") /\ last'.result = "ok"
      /\ last'.account = last.account) =>
       LET id == last'.account
       IN /\ ~subscriptions'[id].paused
          /\ subscriptions'[id].nextDelivery # {}
          /\ \A next \in subscriptions'[id].nextDelivery : next >= now
          /\ Cardinality(ScheduledFrom(deliveries', id, now)) = 1]_vars

\* create, pause, resume: the only delivery is the one the resume created
C17_Witness ==
  /\ last.op = "action"
  /\ last.type = "resume"
  /\ last.result = "ok"
  /\ clock = 3
  /\ subscriptions[last.account].isActive
  /\ ~subscriptions[last.account].paused
  /\ Len(deliveries) = 1
  /\ deliveries[1].id = clock
  /\ deliveries[1].status = "SCHEDULED"
  /\ {deliveries[1].deliveryDate} = subscriptions[last.account].nextDelivery

\* ------------------------------------------------ the credit-scoring endpoint
\* calculateCreditScore of the credit-scoring route, a different function from the
\* one of the accounts and transactions routes.  A customer is
\* [totalOrders, totalSpent, recentOrders], recentOrders being the number of the
\* customer's orders created within the last thirty days.
ScoringOrders(orderCount) ==
  IF orderCount < 5 THEN -15
  ELSE IF orderCount < 10 THEN -8
  ELSE IF orderCount < 20 THEN -3
  ELSE IF orderCount >= 50 THEN 5 ELSE 0

ScoringSpent(totalSpent) ==
  IF totalSpent < 1000 THEN -20
  ELSE IF totalSpent < 5000 THEN -10
  ELSE IF totalSpent < 10000 THEN -5
  ELSE IF totalSpent < 20000 THEN -2
  ELSE IF totalSpent >= 50000 THEN 10
  ELSE IF totalSpent >= 20000 THEN 5 ELSE 0

\* avgOrderValue = orderCount > 0 ? totalSpent / orderCount : 0, compared without
\* dividing: totalSpent / orderCount < v iff totalSpent < v * orderCount
ScoringAverage(orderCount, totalSpent) ==
  IF orderCount = 0 THEN -10
  ELSE IF totalSpent < 100 * orderCount THEN -10
  ELSE IF totalSpent < 500 * orderCount THEN -5
  ELSE IF totalSpent >= 1000 * orderCount THEN 5 ELSE 0

\* mutant: the recent activity is not scored
ScoringRecentIgnored(recentOrders) == 0

ScoringRecent(recentOrders) ==
  IF recentOrders = 0 THEN -10 ELSE IF recentOrders >= 3 THEN 5 ELSE 0

scoringCalculateCreditScore(customer, settings) ==
  LET raw == 100 + ScoringOrders(customer.totalOrders)
                 + ScoringSpent(customer.totalSpent)
                 + ScoringAverage(customer.totalOrders, customer.totalSpent)
                 + ScoringRecent(customer.recentOrders)
      floored == IF settings # {} /\ (\E row \in settings : raw < row.minCreditScore)
                 THEN (CHOOSE row \in settings : TRUE).minCreditScore
                 ELSE raw
  IN Min(100, Max(0, floored))

\* inputs on both sides of every band
ScoringOrderCounts == {0, 3, 4, 5, 9, 10, 19, 20, 49, 50}
ScoringSpends == {0, 500, 999, 1000, 4999, 5000, 9999, 10000, 19999, 20000, 49999, 50000}
MaxRecentOrders == 3
ScoringFloors == {0, 50, 60, 65, 66, 90, 100}
ScoringSettings == {{}} \cup {{[minCreditScore |-> f]} : f \in ScoringFloors}

InitScoring ==
  /\ InitLedgerVars
  /\ req = <<>>
  /\ now = 0
  /\ subscriptions = <<>>
  /\ deliveries = <<>>
  /\ invoices = <<>>
  /\ subscriptionSettings = <<>>
  /\ \E o \in ScoringOrderCounts, t \in ScoringSpends, r \in 0..MaxRecentOrders,
        st \in ScoringSettings :
       calc = [pc |-> "call",
               customer |-> [totalOrders |-> o, totalSpent |-> t, recentOrders |-> r],
               settings |-> st, result |-> 0]

ComputeScore ==
  /\ calc.pc = "call"
  /\ calc' = [calc EXCEPT !.pc = "done",
                          !.result = scoringCalculateCreditScore(calc.customer, calc.settings)]
  /\ UNCHANGED <<ledgerVars, req, deliveryVars>>

NextScoring == ComputeScore

SpecScoring == InitScoring /\ [][NextScoring]_vars

\* the call is done and the customer is the one of the scenario
ScenarioCustomer ==
  /\ calc.pc = "done"
  /\ calc.customer.totalOrders = 3
  /\ calc.customer.totalSpent = 500

\* the score a floor makes of a raw score
Floored(raw, settings) ==
  IF \E row \in settings : row.minCreditScore > raw
  THEN (CHOOSE row \in settings : TRUE).minCreditScore
  ELSE raw

\* C18: for totalOrders = 3 and totalSpent = 500, whatever the recent orders, the
\* scoring function returns 100 - 15 - 20 = 65 when the floor is at most 65 and the
\* floor when it is above 65.
C18_ScenarioScore == ScenarioCustomer => calc.result = Floored(65, calc.settings)

\* C18 amended: for totalOrders = 3 and totalSpent = 500 the function returns
\* 100 - 15 - 20 - 5 (the average order value, 500 / 3, is below 500), less 10 when
\* no order is recent and plus 5 when three or more are: 50, 60 or 65; a floor
\* above that value replaces it.
C18_ScenarioScoreAmended ==
  ScenarioCustomer =>
    LET recent == calc.customer.recentOrders
        raw == IF recent = 0 THEN 50 ELSE IF recent >= 3 THEN 65 ELSE 60
    IN calc.result = Floored(raw, calc.settings)

\* the scenario customer with no recent order and a floor below the score
C18_Witness ==
  /\ ScenarioCustomer
  /\ calc.customer.recentOrders = 0
  /\ calc.settings = {[minCreditScore |-> 0]}
  /\ calc.result = 50


\* ------------------------------------------------------- claims C19 and C20
\* the account-creation request of a step, as its response records it
AccountStep(result) ==
  /\ clock' = clock + 1
  /\ last'.op = "account"
  /\ last'.result = result

\* C19: at most one credit account exists per (customer, shop) pair after any
\* sequence of account-creation requests: a creation request that succeeds
\* creates the first account of its pair, and a creation request for a pair that
\* already has an account is rejected and creates neither an account nor a
\* ledger entry.
C19_OneAccountPerPair ==
  [][/\ \A i \in 1..Len(accounts'), j \in 1..Len(accounts') :
          (accounts'[i].customerId = accounts'[j].customerId
             /\ accounts'[i].shopId = accounts'[j].shopId) => i = j
     /\ Len(accounts') # Len(accounts) => AccountStep("ok")
     /\ AccountStep("ok") =>
          /\ Len(accounts') = Len(accounts) + 1
          /\ \A i \in 1..Len(accounts) : accounts'[i] = accounts[i]
          /\ LET created == accounts'[Len(accounts')]
             IN AccountsOf(created.customerId, created.shopId) = {}
     /\ AccountStep("already_exists") =>
          /\ accounts # <<>>
          /\ accounts' = accounts
          /\ ledger' = ledger]_vars

C19_Witness ==
  /\ last.op = "account"
  /\ last.result = "already_exists"
  /\ Len(accounts) = 1
  /\ Len(ledger) = 1

\* C20: a credit transaction request with a negative amount is rejected as a
\* validation error and leaves the account and the ledger unchanged: no request
\* with a negative amount is answered as accepted, none changes an account or
\* the ledger, and every ledger entry carries a non-negative amount.
C20_NegativeAmountRejected ==
  [][/\ (clock' = clock + 1 /\ last'.op = "tx" /\ last'.amount < 0) =>
          /\ last'.result # "ok"
          /\ accounts' = accounts
          /\ ledger' = ledger
     /\ \A i \in 1..Len(ledger') : ledger'[i].amount >= 0]_vars


\* ============================================================== billing
\* The invoice route (POST, DELETE) and the payments route (POST, PUT) over the
\* Invoice, Payment and Order tables.  Every request falls in one calendar
\* month, so generateInvoiceNumber's createdAt window holds every invoice of the
\* shop that exists.  An invoice id is NewId; a payment id is its index (no
\* handler deletes a payment).
MaxInvoices == 3

\* status is optional: DRAFT stands for leaving it out
InvoiceCreateStatuses == {"DRAFT"}
PaymentStatuses == {"PENDING", "COMPLETED", "FAILED", "REFUNDED"}

\* db.invoice.count({where: {shopId, createdAt in this month}})
InvoiceCount(shopId) ==
  Cardinality({k \in 1..Len(invoices) : invoices[k].shopId = shopId})

\* generateInvoiceNumber: prefix-YYYYMM-sequence; prefix, year and month are the
\* same for every invoice of one shop in one month, so the number is modelled
\* by its sequence part, count + 1 (padStart is one-to-one)
generateInvoiceNumber(shopId) == InvoiceCount(shopId) + 1

\* settingsOk: the shop has a BillingSettings row (the table is not modelled)
InvoicePost(auth, shopId, totalAmount, status, settingsOk) ==
  /\ clock < MaxOps
  /\ clock' = clock + 1
  /\ UNCHANGED <<customers, accounts, ledger, orders, payments>>
  /\ IF shopId # auth
     THEN /\ last' = Response("invoice", "unauthorized", 0, "", 0)
          /\ UNCHANGED invoices
     ELSE IF ~settingsOk
     THEN /\ last' = Response("invoice", "not_configured", 0, "", 0)
          /\ UNCHANGED invoices
     ELSE /\ invoices' = Append(invoices,
               [id |-> NewId, invoiceNumber |-> generateInvoiceNumber(shopId),
                shopId |-> shopId, totalAmount |-> totalAmount, status |-> status,
                paidAmount |-> 0, balanceAmount |-> totalAmount])
          /\ last' = Response("invoice", "ok", NewId, status, totalAmount)

\* db.invoice.delete: the rows without the one at position at
RemoveAt(rows, at) ==
  [k \in 1..(Len(rows) - 1) |-> IF k < at THEN rows[k] ELSE rows[k + 1]]

InvoiceDelete(auth, invoiceId) ==
  /\ clock < MaxOps
  /\ clock' = clock + 1
  /\ UNCHANGED <<customers, accounts, ledger, orders, payments>>
  /\ LET found == {k \in InvoiceAt(invoiceId) : invoices[k].shopId = auth}
         paid == {k \in 1..Len(payments) : payments[k].invoiceId = invoiceId}
     IN IF found = {}
        THEN /\ last' = Response("invoice_delete", "not_found", 0, "", 0)
             /\ UNCHANGED invoices
        ELSE IF paid # {}
        THEN /\ last' = Response("invoice_delete", "has_payments", 0, "", 0)
             /\ UNCHANGED invoices
        ELSE /\ invoices' = RemoveAt(invoices, CHOOSE k \in found : TRUE)
             /\ last' = Response("invoice_delete", "ok", invoiceId, "", 0)

\* PUT /api/payments?id=: status is {} when the body leaves it out
PaymentPut(auth, paymentId, status) ==
  /\ clock < MaxOps
  /\ clock' = clock + 1
  /\ UNCHANGED <<customers, accounts, ledger>>
  /\ IF ~(paymentId \in 1..Len(payments) /\ payments[paymentId].shopId = auth)
     THEN /\ last' = Response("payment_put", "not_found", 0, "", 0)
          /\ UNCHANGED <<payments, invoices, orders>>
     ELSE LET existingPayment == payments[paymentId]
              completes == status = {"COMPLETED"} /\ existingPayment.status # "COMPLETED"
              refunds == status = {"REFUNDED"} /\ existingPayment.status # "REFUNDED"
          IN /\ payments' = [payments EXCEPT ![paymentId].status =
                                Sent(status, existingPayment.status)]
             /\ invoices' =
                  IF completes /\ existingPayment.invoiceId # 0
                  THEN updateInvoicePayment(existingPayment.invoiceId,
                                            existingPayment.amount)
                  ELSE IF refunds /\ existingPayment.invoiceId # 0
                  THEN updateInvoicePayment(existingPayment.invoiceId,
                                            -existingPayment.amount)
                  ELSE invoices
             /\ orders' =
                  IF completes /\ existingPayment.orderId # 0
                  THEN updateOrderPayment(existingPayment.orderId,
                                          existingPayment.method)
                  ELSE orders
             /\ last' = Response("payment_put", "ok", paymentId,
                                 Sent(status, ""), existingPayment.amount)

\* Two cash-on-delivery orders, one per shop, were placed before the first
\* billing request (POST /api/orders creates the customer and counts the order).
MaxBillingPayments == 2

PlacedOrder(shopId) ==
  [shopId |-> shopId, customerId |-> <<shopId, 1>>, totalAmount |-> 1,
   paymentMethod |-> "cod", paymentStatus |-> "pending", creditAccountId |-> 0]

InitBilling ==
  /\ customers = [k \in {<<shopId, 1>> : shopId \in Shops} |->
                    [totalOrders |-> 1, totalSpent |-> 1]]
  /\ accounts = <<>>
  /\ ledger = <<>>
  /\ orders = [shopId \in Shops |-> PlacedOrder(shopId)]
  /\ payments = <<>>
  /\ invoices = <<>>
  /\ clock = 0
  /\ last = NoResponse
  /\ req = <<>>
  /\ calc = <<>>
  /\ now = 0
  /\ subscriptions = <<>>
  /\ deliveries = <<>>
  /\ subscriptionSettings = <<>>

InvoiceTotals == {MaxAmount}

InvoiceIds == {invoices[k].id : k \in 1..Len(invoices)}

billingIdle == <<req, calc, now, subscriptions, deliveries, subscriptionSettings>>

DoInvoicePost ==
  /\ Len(invoices) < MaxInvoices
  /\ \E auth \in Shops, shopId \in Shops, a \in InvoiceTotals,
        status \in InvoiceCreateStatuses, ok \in BOOLEAN :
        InvoicePost(auth, shopId, a, status, ok)
  /\ UNCHANGED billingIdle

DoInvoiceDelete ==
  /\ \E auth \in Shops, id \in InvoiceIds \cup {0} : InvoiceDelete(auth, id)
  /\ UNCHANGED billingIdle

\* a payment by cash that names no customer: processCreditPayment is not entered
DoBillingPaymentPost ==
  /\ Len(payments) < MaxBillingPayments
  /\ \E auth \in Shops, shopId \in Shops, a \in PosAmounts,
        status \in PaymentStatuses, o \in 0..Len(orders),
        i \in InvoiceIds \cup {0}, ok \in BOOLEAN :
        PaymentPost(auth, shopId, a, "CASH", status, {}, o, i, ok)
  /\ UNCHANGED billingIdle

DoPaymentPut ==
  /\ \E auth \in Shops, id \in 1..(Len(payments) + 1),
        status \in {{}} \cup {{x} : x \in PaymentStatuses} :
        PaymentPut(auth, id, status)
  /\ UNCHANGED billingIdle

NextBilling == DoInvoicePost \/ DoInvoiceDelete \/ DoBillingPaymentPost \/ DoPaymentPut

SpecBilling == InitBilling /\ [][NextBilling]_vars

\* ----------------------------------------------------------- claims C21..
\* shop s is the authenticated shop of the payment request of this step: the
\* payments route writes only Payment rows whose shopId is that of the token
PaymentRequestBy(s) ==
  /\ clock' = clock + 1
  /\ last'.result = "ok"
  /\ \/ /\ last'.op = "payment"
        /\ payments'[Len(payments')].shopId = s
     \/ /\ last'.op = "payment_put"
        /\ payments[last'.account].shopId = s

\* C21: tenant isolation: a payment request (creation or status update)
\* authenticated as shop A leaves every invoice and every order owned by a
\* different shop B unchanged, also when the payment names B's invoice or order.
C21_TenantIsolation ==
  [][\A s \in Shops : PaymentRequestBy(s) =>
        /\ \A k \in 1..Len(invoices) :
             invoices[k].shopId # s => invoices'[k] = invoices[k]
        /\ \A k \in 1..Len(orders) :
             orders[k].shopId # s => orders'[k] = orders[k]]_vars

\* the sum of the amounts of the first n payments that name the invoice and
\* whose status is COMPLETED
RECURSIVE CompletedSum(_, _)
CompletedSum(invoiceId, n) ==
  IF n = 0 THEN 0
  ELSE CompletedSum(invoiceId, n - 1)
       + (IF payments[n].invoiceId = invoiceId /\ payments[n].status = "COMPLETED"
          THEN payments[n].amount ELSE 0)

\* C25: after any sequence of payment creations and payment status updates,
\* every invoice's paidAmount equals the sum of the amounts of its payments
\* whose current status is COMPLETED (so it is never negative and no payment
\* is counted twice).
C25_PaidAmountIsCompletedSum ==
  \A k \in 1..Len(invoices) :
    invoices[k].paidAmount = CompletedSum(invoices[k].id, Len(payments))

\* C26: within one shop, no two existing invoices created through the invoice
\* endpoint carry the same invoiceNumber, after any sequence of invoice
\* creations and deletions in the same month.
C26_InvoiceNumbersDistinct ==
  \A j \in 1..Len(invoices), k \in 1..Len(invoices) :
    (invoices[j].shopId = invoices[k].shopId
       /\ invoices[j].invoiceNumber = invoices[k].invoiceNumber) => j = k

\* C22: the score stored at credit-account creation and recomputed after a
\* PAYMENT (calculateCreditScore of the accounts and transactions routes) equals
\* the score the credit-scoring endpoint's function computes for the same
\* customer and shop settings.
C22_ScoreImplementationsAgree ==
  calc.pc = "done" =>
    calc.result = calculateCreditScore(calc.customer, calc.settings)

\* ===================================== calculateNextDelivery, step by step
\* The same function with its while loops unrolled: calc.pc is "call" on entry,
\* "loop" at the head of the while loop of the frequency's case, "done" at the
\* return.  calc.nextDate is the local variable nextDate.
Enter ==
  /\ calc.pc = "call"
  /\ LET from == IF calc.startDate < calc.now THEN calc.now ELSE calc.startDate
         nextDate == rollOver(setHours(from, calc.deliveryTime), calc.now)
         looping == \/ calc.frequency \in {"daily", "weekly"}
                    \/ calc.frequency = "custom" /\ calc.deliveryDays # <<>>
     IN calc' = [calc EXCEPT !.pc = IF looping THEN "loop" ELSE "done",
                             !.nextDate = nextDate]
  /\ UNCHANGED <<ledgerVars, req, deliveryVars>>

\* one evaluation of `while (nextDate <= now)` and, when it is true, of the body
LoopTest ==
  /\ calc.pc = "loop"
  /\ IF calc.nextDate <= calc.now
     THEN LET step == IF calc.frequency = "weekly" THEN 7 ELSE 1
              next == addDays(calc.nextDate, step)
              listed == dayNames[getDay(next) + 1] \in splitDays(calc.deliveryDays)
              breaks == calc.frequency = "custom" /\ listed /\ next > calc.now
          IN calc' = [calc EXCEPT !.pc = IF breaks THEN "done" ELSE "loop",
                                  !.nextDate = next]
     ELSE calc' = [calc EXCEPT !.pc = "done"]
  /\ UNCHANGED <<ledgerVars, req, deliveryVars>>

InitLoop ==
  /\ InitLedgerVars
  /\ req = <<>>
  /\ now = 0
  /\ subscriptions = <<>>
  /\ deliveries = <<>>
  /\ invoices = <<>>
  /\ subscriptionSettings = <<>>
  /\ \E f \in Frequencies, t \in DeliveryTimes, d \in DeliveryDayStrings,
        s \in Instants, n \in Instants :
       calc = [pc |-> "call", frequency |-> f, deliveryTime |-> t, deliveryDays |-> d,
               startDate |-> s, now |-> n, nextDate |-> 0]

NextLoop == Enter \/ LoopTest

\* the function runs on the request's thread until it returns
SpecLoop == InitLoop /\ [][NextLoop]_vars /\ WF_vars(NextLoop)

\* C23: calculateNextDelivery terminates for every input, including
\* frequency custom with an empty deliveryDays string or one that contains no
\* valid weekday name: every call reaches its return.
C23_Terminates == <>(calc.pc = "done")

C23_Witness ==
  /\ calc.pc = "done"
  /\ calc.frequency = "custom"
  /\ calc.deliveryDays = <<"funday">>
  /\ calc.nextDate > calc.now

\* C24: under any interleaving of concurrent credit-transaction requests on
\* one account whose creditLimit does not change, every value a request writes
\* to currentBalance is at most creditLimit.
C24_WrittenBalanceWithinLimit ==
  [][/\ \A p \in Requests :
          (req[p].pc = "update" /\ req'[p].pc # "update") =>
            accounts'[req[p].accountId].currentBalance
              <= accounts'[req[p].accountId].creditLimit
     /\ \A i \in 1..Len(accounts) :
          accounts'[i].currentBalance # accounts[i].currentBalance =>
            accounts'[i].currentBalance <= accounts'[i].creditLimit]_vars

\* two accepted requests that both read before either wrote, the second write
\* bringing the balance to the limit
C24_Witness ==
  /\ AllDone
  /\ Cardinality(Writers) = 2
  /\ ReadsBeforeWrites
  /\ accounts[1].creditLimit = 1
  /\ accounts[1].currentBalance = accounts[1].creditLimit
  /\ Len(ledger) = 3

\* the order request of this step was answered with one of the credit errors
OrderCreditRejected ==
  /\ clock' = clock + 1
  /\ last'.op = "order"
  /\ last'.result \in {"account_not_found", "inactive", "exceeds_available"}

\* C27: when an order request with paymentMethod credit is rejected with an
\* error (credit account not found, account inactive, or totalAmount above
\* availableCredit), no Order record has been persisted and the credit accounts
\* and every customer's totalOrders and totalSpent are unchanged.
C27_RejectedOrderPersistsNothing ==
  [][OrderCreditRejected =>
       /\ orders' = orders
       /\ accounts' = accounts
       /\ \A k \in DOMAIN customers : customers'[k] = customers[k]]_vars

\* the order request of this step was paid from a credit account
OrderDebited ==
  /\ clock' = clock + 1
  /\ last'.op = "order"
  /\ last'.result = "ok"
  /\ last'.type = "DEBIT"

\* C28: a DEBIT appended by credit-paid order placement changes the account as
\* a DEBIT of the same amount sent to the credit-transaction endpoint would:
\* the same new currentBalance and the same new availableCredit.
C28_DebitPathsAgree ==
  [][OrderDebited =>
       LET id == last'.account
           amount == last'.amount
       IN /\ accounts'[id].currentBalance =
               TxNewBalance(accounts[id].currentBalance, "DEBIT", amount)
          /\ accounts'[id].availableCredit =
               CapAvailable(TxNewAvailable(accounts[id].availableCredit, "DEBIT", amount),
                            accounts[id].creditLimit)]_vars

\* C29: once a subscription has been cancelled (isActive false, its deliveries
\* deleted), no later operation gives it a SCHEDULED delivery record or a
\* non-null nextDelivery.  Only the cancel action clears isActive.
C29_CancelledStaysUnscheduled ==
  \A i \in 1..Len(subscriptions) :
    ~subscriptions[i].isActive =>
      /\ subscriptions[i].nextDelivery = {}
      /\ \A d \in 1..Len(deliveries) :
           deliveries[d].subscriptionId = i => deliveries[d].status # "SCHEDULED"

\* ------------------------------------------------ completions and invoices
\* Subscriptions are created, deliveries are created by hand and completed, and
\* every invoice creation succeeds: a delivery of an autoCharge subscription
\* that is DELIVERED has been invoiced by the request that completed it.
NextCharge == DoSubscriptionPost \/ DoDeliveryPost \/ DoDeliveryComplete \/ Tick

SpecCharge == InitDelivery /\ [][NextCharge]_vars

\* the delivery update of this step sets DELIVERED on a delivery that was
\* DELIVERED already, of a subscription with autoCharge
CompletedAgain ==
  /\ clock' = clock + 1
  /\ last'.op = "delivery_put"
  /\ last'.result = "ok"
  /\ last'.type = "DELIVERED"
  /\ \E d \in 1..Len(deliveries) :
       /\ deliveries[d].id = last'.account
       /\ deliveries[d].status = "DELIVERED"
       /\ subscriptions[deliveries[d].subscriptionId].autoCharge

\* C30: for each delivery record of an autoCharge subscription at most one
\* auto-generated invoice is ever created: a further update with status
\* DELIVERED of a delivery that has been completed and invoiced creates none.
C30_OneInvoicePerDelivery ==
  [][CompletedAgain => invoices' = invoices]_vars

=============================================================================
